---- MODULE Spec2Model ----
(***************************************************************************)
(* Variant-inventory cache and row expansion of the product listing        *)
(* (ProductsPage in src/src/pages/LoginPage.tsx), its StockBadge, and the  *)
(* SKU preview of the add-product form (src/src/pages/AddProductPage.tsx). *)
(*                                                                         *)
(* The page is a React 18 function component.  Its state is the three      *)
(* useState cells expandedProducts, loadingInventory and inventoryCache.   *)
(* toggleExpand is an async function: everything before its single await   *)
(* runs in the click handler, everything after it runs as one              *)
(* continuation when the batch request settles.  State updates of one      *)
(* handler or continuation are batched, so each is one atomic step.        *)
(***************************************************************************)
EXTENDS Integers, Sequences, FiniteSets, TLC

VARIABLES expandedProducts, loadingInventory, inventoryCache, inFlight, issued, last, userCollapsed

\* A rendering of StockBadge: its quantity prop and the badge it returned.
VARIABLES quantity, badge

\* A call of generateSkuPreview (AddProductPage.tsx): its arguments and what
\* the call produced.
VARIABLES args, result

\* The add-product form (AddProductPage): formData.name, the variants list,
\* whether the [formData.name] effect has yet to run, and whether a render
\* threw and unmounted the page.
VARIABLES formName, formVariants, effectPending, crashed

\* Submitting the form (handleSubmit): formData.price, the error and loading
\* cells, the outstanding productsApi.create call (<< >> or its argument), and
\* whether the page has navigated to /products.
VARIABLES formPrice, error, loading, created, navigated

\* The login form (LoginPage): its email and password cells, the auth slice
\* of the store, the suspended handleSubmit call, the number of
\* authApi.login calls, the page shown, and two history variables: the
\* latest response of authApi.login and the latest action handleSubmit
\* dispatched.
VARIABLES email, password, auth, pendingLogin, calls, location, response, dispatched

badgeVars == <<quantity, badge>>
skuVars == <<args, result>>
submitVars == <<formPrice, error, loading, created, navigated>>
formVars == <<formName, formVariants, effectPending, crashed, formPrice, error, loading, created, navigated>>

vars == <<expandedProducts, loadingInventory, inventoryCache, inFlight, issued, last, userCollapsed,
          quantity, badge, args, result, formName, formVariants, effectPending, crashed,
          formPrice, error, loading, created, navigated,
          email, password, auth, pendingLogin, calls, location, response, dispatched>>

loginVars == <<email, password, auth, pendingLogin, calls, location, response, dispatched>>

listVars == <<expandedProducts, loadingInventory, inventoryCache, inFlight, issued, last, userCollapsed>>

\* Number of batch requests one behaviour may issue (caps the request ids).
MaxFetches == 3

\* Largest quantity handed to StockBadge.
MaxQuantity == 120

\* Number of authApi.login calls one behaviour may make.
MaxLogins == 2

\* ---------------------------------------------------------------------------
\* The product list shown by the page (the result of fetchProducts).
\* p1 and p2 share the SKU "B-2"; p3 has no variants.
\* ---------------------------------------------------------------------------
ProductIds == {"p1", "p2", "p3"}

VariantsOf(p) ==
  CASE p = "p1" -> << [sku |-> "A-1"], [sku |-> "B-2"] >>
    [] p = "p2" -> << [sku |-> "B-2"], [sku |-> "C-3"] >>
    [] OTHER    -> << >>

\* hasVariants: only such rows have a click handler and a chevron button.
hasVariants(p) == Len(VariantsOf(p)) > 0

Skus == {"A-1", "B-2", "C-3"}

\* Values an inventory record can carry.
Quantities == {0, 3, 5}
Reserved == {1}

InventoryData == [quantityAvailable : Quantities, quantityReserved : Reserved]

\* The set of SKUs of a variant list.
SkuSet(variants) == {variants[i].sku : i \in 1..Len(variants)}

\* ---------------------------------------------------------------------------
\* inventoryApi.getBatch: the possible results of one batch request.  A
\* success is a mapping from some of the requested SKUs to records (SKUs
\* without a record may be omitted); the request may also fail.
\* ---------------------------------------------------------------------------
BatchResponses(skus) ==
  UNION {[S -> InventoryData] : S \in SUBSET {skus[i] : i \in 1..Len(skus)}}

\* ---------------------------------------------------------------------------
\* toggleExpand, line 424:
\*   variants.filter((v) => v.sku && !inventoryCache[v.sku]).map((v) => v.sku)
\* A cached value is a record object, hence truthy.
\* ---------------------------------------------------------------------------
Truthy(cache, sku) == sku \in DOMAIN cache

skusToFetchAll(variants, cache) ==
  [i \in 1..Len(variants) |-> variants[i].sku]

skusToFetchWholeProduct(variants, cache) ==
  IF \E i \in 1..Len(variants) : ~Truthy(cache, variants[i].sku)
  THEN [i \in 1..Len(variants) |-> variants[i].sku]
  ELSE << >>

skusToFetchFirstOnly(variants, cache) ==
  IF Len(variants) > 0 /\ variants[1].sku # "" /\ ~Truthy(cache, variants[1].sku)
  THEN << variants[1].sku >>
  ELSE << >>

skusToFetch(variants, cache) ==
  LET keep(v) == v.sku # "" /\ ~Truthy(cache, v.sku)
      kept == SelectSeq(variants, keep)
  IN  [i \in 1..Len(kept) |-> kept[i].sku]

\* setInventoryCache((prev) => ({ ...prev, ...inventoryData }))
spreadMergeOldWins(prev, data) ==
  [k \in DOMAIN prev \cup DOMAIN data |->
     IF k \in DOMAIN prev THEN prev[k] ELSE data[k]]

spreadMergeKeyByKey(prev, data) ==
  IF DOMAIN data = {} THEN prev
  ELSE LET first == CHOOSE k \in DOMAIN data : TRUE
       IN  [k \in DOMAIN prev \cup {first} |-> IF k = first THEN data[k] ELSE prev[k]]

spreadMerge(prev, data) ==
  [k \in DOMAIN prev \cup DOMAIN data |->
     IF k \in DOMAIN data THEN data[k] ELSE prev[k]]

\* ---------------------------------------------------------------------------
\* getTotalStock: reduce over the variants, (inv?.quantityAvailable || 0).
\* ---------------------------------------------------------------------------
RECURSIVE reduceStock(_, _, _, _)
reduceStock(variants, cache, i, sum) ==
  IF i > Len(variants) THEN sum
  ELSE LET sku == variants[i].sku
           q == IF sku \in DOMAIN cache /\ cache[sku].quantityAvailable # 0
                THEN cache[sku].quantityAvailable ELSE 0
       IN  reduceStock(variants, cache, i + 1, sum + q)

getTotalStockFirstOnly(variants, cache) ==
  IF Len(variants) = 0 THEN 0 ELSE reduceStock(SubSeq(variants, 1, 1), cache, 1, 0)

getTotalStock(variants, cache) ==
  IF Len(variants) = 0 THEN 0 ELSE reduceStock(variants, cache, 1, 0)

\* ---------------------------------------------------------------------------
\* hasInventoryLoaded: variants.every((v) => v.sku in inventoryCache)
\* ---------------------------------------------------------------------------
RECURSIVE every(_, _, _)
every(variants, cache, i) ==
  IF i > Len(variants) THEN TRUE
  ELSE IF variants[i].sku \in DOMAIN cache THEN every(variants, cache, i + 1)
  ELSE FALSE

hasInventoryLoadedSome(variants, cache) ==
  IF Len(variants) = 0 THEN TRUE
  ELSE \E i \in 1..Len(variants) : variants[i].sku \in DOMAIN cache

hasInventoryLoaded(variants, cache) ==
  IF Len(variants) = 0 THEN TRUE ELSE every(variants, cache, 1)

\* ---------------------------------------------------------------------------
\* StockBadge({ quantity }): the Badge element it returns (its variant, its
\* text, and the number shown in it, if any).
\* ---------------------------------------------------------------------------
Badge(variant, text, shown) == [variant |-> variant, text |-> text, shown |-> shown]

StockBadgeLowInclusive(q) ==
  IF q = 0 THEN Badge("error", "Out of Stock", << >>)
  ELSE IF q <= 10 THEN Badge("warning", "Low", << q >>)
  ELSE Badge("success", "", << q >>)

StockBadge(q) ==
  IF q = 0 THEN Badge("error", "Out of Stock", << >>)
  ELSE IF q < 10 THEN Badge("warning", "Low", << q >>)
  ELSE Badge("success", "", << q >>)

Unrendered == Badge("none", "", << >>)

\* ---------------------------------------------------------------------------
\* Strings.  A JavaScript string is modelled as the sequence of its
\* characters, each a one-character string.  The values that are not
\* strings are one-element tuples no string equals.
\* ---------------------------------------------------------------------------
undefined == << "undefined" >>
ObjectValue == << "[object]" >>
TypeError == << "TypeError" >>
NotCalled == << "not called" >>
null == << "null" >>
NaN == << "NaN" >>

Lower == <<"a","b","c","d","e","f","g","h","i","j","k","l","m",
           "n","o","p","q","r","s","t","u","v","w","x","y","z">>
Upper == <<"A","B","C","D","E","F","G","H","I","J","K","L","M",
           "N","O","P","Q","R","S","T","U","V","W","X","Y","Z">>
Digits == {"0","1","2","3","4","5","6","7","8","9"}
Spaces == {" ", "\t"}

isLower(c) == \E i \in 1..26 : Lower[i] = c
isUpper(c) == \E i \in 1..26 : Upper[i] = c
\* /[a-zA-Z]/, /\d/ (also [0-9]) and /\s/ on one character.
isLetter(c) == isLower(c) \/ isUpper(c)
isDigit(c) == c \in Digits
isSpace(c) == c \in Spaces

charUpper(c) == IF isLower(c) THEN Upper[CHOOSE i \in 1..26 : Lower[i] = c] ELSE c
charLower(c) == IF isUpper(c) THEN Lower[CHOOSE i \in 1..26 : Upper[i] = c] ELSE c

\* String.prototype.toUpperCase / toLowerCase
toUpperCase(s) == [i \in 1..Len(s) |-> charUpper(s[i])]
toLowerCase(s) == [i \in 1..Len(s) |-> charLower(s[i])]

\* String.prototype.substring(start, end), 0-based, end exclusive.
substring(s, start, end) ==
  SubSeq(s, start + 1, IF end < Len(s) THEN end ELSE Len(s))

\* String.prototype.trim
RECURSIVE trimStart(_)
trimStart(s) ==
  IF s # << >> /\ isSpace(Head(s)) THEN trimStart(Tail(s)) ELSE s

RECURSIVE trimEnd(_)
trimEnd(s) ==
  IF s # << >> /\ isSpace(s[Len(s)]) THEN trimEnd(SubSeq(s, 1, Len(s) - 1)) ELSE s

trim(s) == trimEnd(trimStart(s))

\* String.prototype.padEnd(targetLength, padString) with a one-character pad.
RECURSIVE padEnd(_, _, _)
padEnd(s, targetLength, c) ==
  IF Len(s) >= targetLength THEN s ELSE padEnd(Append(s, c), targetLength, c)

\* productName.replace(/[^a-zA-Z0-9\s]/g, '')
isKept(c) == isLetter(c) \/ isDigit(c) \/ isSpace(c)
stripSpecialAsSpace(s) == [i \in 1..Len(s) |-> IF isKept(s[i]) THEN s[i] ELSE " "]

stripSpecial(s) == SelectSeq(s, isKept)

\* String.prototype.split(/\s+/): the pieces between the maximal runs of
\* white space, empty pieces at the ends included.
RECURSIVE splitFrom(_, _, _, _)
splitFrom(s, i, piece, pieces) ==
  IF i > Len(s) THEN Append(pieces, piece)
  ELSE IF isSpace(s[i])
       THEN IF i > 1 /\ isSpace(s[i - 1])
            THEN splitFrom(s, i + 1, piece, pieces)
            ELSE splitFrom(s, i + 1, << >>, Append(pieces, piece))
       ELSE splitFrom(s, i + 1, Append(piece, s[i]), pieces)

splitSpaces(s) == splitFrom(s, 1, << >>, << >>)

\* .filter(Boolean) on an array of strings
isNonEmpty(s) == s # << >>
filterBoolean(pieces) == SelectSeq(pieces, isNonEmpty)

\* s.match(/\d+/): the first run of digits of s, << >> for null.
RECURSIVE digitRunFrom(_, _)
digitRunFrom(s, i) ==
  IF i > Len(s) \/ ~isDigit(s[i]) THEN << >>
  ELSE << s[i] >> \o digitRunFrom(s, i + 1)

matchDigits(s) ==
  IF \E i \in 1..Len(s) : isDigit(s[i])
  THEN digitRunFrom(s, CHOOSE i \in 1..Len(s) :
                         isDigit(s[i]) /\ \A j \in 1..(i - 1) : ~isDigit(s[j]))
  ELSE << >>

\* Array.prototype.join('-')
RECURSIVE join(_)
join(parts) ==
  IF Len(parts) = 0 THEN << >>
  ELSE IF Len(parts) = 1 THEN parts[1]
  ELSE parts[1] \o << "-" >> \o join(Tail(parts))

\* `if (x)` on an optional string: undefined and '' are falsy.
isTruthy(x) == x # undefined /\ x # << >>

\* ---------------------------------------------------------------------------
\* generateSkuPreview(productName, color?, size?), AddProductPage.tsx 57-102.
\* ---------------------------------------------------------------------------
PROD == <<"P","R","O","D">>

\* words.forEach: initials += word[0] when it is a letter.
RECURSIVE initialsOf(_, _)
initialsOf(words, i) ==
  IF i > Len(words) THEN << >>
  ELSE (IF isLetter(words[i][1]) THEN << words[i][1] >> ELSE << >>)
       \o initialsOf(words, i + 1)

\* words.forEach: numbers += word.match(/\d+/)[0] when there is a match.
RECURSIVE numbersOf(_, _)
numbersOf(words, i) ==
  IF i > Len(words) THEN << >>
  ELSE matchDigits(words[i]) \o numbersOf(words, i + 1)

\* cleaned.split(/\s+/).filter(Boolean)
wordsOf(productName) == filterBoolean(splitSpaces(stripSpecial(productName)))

\* parts[0]: the code, lines 60-82.
baseCodeNoTruncate(productName) ==
  LET words == wordsOf(productName)
      code == initialsOf(words, 1) \o numbersOf(words, 1)
  IN  toUpperCase(IF Len(code) < 2 THEN padEnd(code, 4, "P") ELSE code)

baseCode(productName) ==
  LET words == wordsOf(productName)
      code == substring(initialsOf(words, 1) \o numbersOf(words, 1), 0, 10)
  IN  toUpperCase(IF Len(code) < 2 THEN padEnd(code, 4, "P") ELSE code)

\* colorCode.toUpperCase(), lines 84-87 (both arms of the ?: are the same).
colorCode(color) == toUpperCase(substring(color, 0, 3))

\* sizeMap[sizeLower]: an own property, or a property every object literal
\* inherits from Object.prototype ("constructor", "__proto__"), or undefined.
sizeMap(key) ==
  CASE key = <<"e","x","t","r","a"," ","s","m","a","l","l">> -> <<"X","S">>
    [] key = <<"s","m","a","l","l">> -> <<"S">>
    [] key = <<"m","e","d","i","u","m">> -> <<"M">>
    [] key = <<"l","a","r","g","e">> -> <<"L">>
    [] key = <<"e","x","t","r","a"," ","l","a","r","g","e">> -> <<"X","L">>
    [] key = <<"x","x","l">> -> <<"X","X","L">>
    [] key = <<"c","o","n","s","t","r","u","c","t","o","r">> -> ObjectValue
    [] key = <<"_","_","p","r","o","t","o","_","_">> -> ObjectValue
    [] OTHER -> undefined

\* sizeMap[sizeLower] || (size.match(/\d+/) || [size.substring(0, 3)])[0]
sizeCode(size) ==
  LET looked == sizeMap(trim(toLowerCase(size)))
      matched == matchDigits(size)
  IN  IF looked # undefined THEN looked
      ELSE IF matched # << >> THEN matched
      ELSE substring(size, 0, 3)

\* sizeCode.toUpperCase(), line 98: a TypeError when sizeCode is not a string.
sizeSegment(size) ==
  IF sizeCode(size) = ObjectValue THEN TypeError ELSE toUpperCase(sizeCode(size))

\* The whole function: the returned string, or TypeError when it throws.
generateSkuPreview(productName, color, size) ==
  IF trim(productName) = << >> THEN PROD
  ELSE LET parts1 == << baseCode(productName) >>
           parts2 == IF isTruthy(color) THEN Append(parts1, colorCode(color)) ELSE parts1
       IN  IF isTruthy(size)
           THEN IF sizeSegment(size) = TypeError THEN TypeError
                ELSE join(Append(parts2, sizeSegment(size)))
           ELSE join(parts2)

\* The values the variables of a component hold while another component is
\* the one being run.
BadgeIdle == quantity = 0 /\ badge = Unrendered
SkuIdle == args = << >> /\ result = << >>
FormIdle ==
  /\ formName = << >>
  /\ formVariants = << >>
  /\ effectPending = FALSE
  /\ crashed = FALSE
  /\ formPrice = << >>
  /\ error = null
  /\ loading = FALSE
  /\ created = << >>
  /\ navigated = FALSE

\* The auth slice before any login.
initialAuth == [isLoading |-> FALSE, error |-> null, isAuthenticated |-> FALSE]

LoginIdle ==
  /\ email = ""
  /\ password = ""
  /\ auth = initialAuth
  /\ pendingLogin = << >>
  /\ calls = 0
  /\ location = "/login"
  /\ response = << >>
  /\ dispatched = << >>

\* ---------------------------------------------------------------------------
\* State after the component is constructed (the three useState initialisers).
\* inFlight holds the suspended toggleExpand calls: each keeps the SKUs it
\* requested and its local newExpanded.  issued counts the getBatch calls.
\* last and userCollapsed are history variables: the latest event, and the
\* products whose latest user toggle was a collapse.
\* ---------------------------------------------------------------------------
Event(op, p, id, skus, returned, afterCollapse) ==
  [op |-> op, productId |-> p, id |-> id, skus |-> skus,
   returned |-> returned, afterCollapse |-> afterCollapse]

Init ==
  /\ expandedProducts = {}
  /\ loadingInventory = {}
  /\ inventoryCache = << >>
  /\ inFlight = {}
  /\ issued = 0
  /\ last = Event("init", "", 0, << >>, {}, FALSE)
  /\ userCollapsed = {}
  /\ BadgeIdle
  /\ SkuIdle
  /\ LoginIdle
  /\ FormIdle

\* Requests outstanding for product p.
Outstanding(p) == {f \in inFlight : f.productId = p}

\* The SKUs of a request.
Requested(f) == {f.skus[i] : i \in 1..Len(f.skus)}

\* ---------------------------------------------------------------------------
\* toggleExpand(productId, variants) up to its await (or to its end when it
\* does not await).  newExpanded is the copy of expandedProducts the call
\* made on entry; a call that awaits keeps it for its continuation.
\* ---------------------------------------------------------------------------
CollapseClearsCache(p) ==
  /\ hasVariants(p)
  /\ p \in expandedProducts
  /\ expandedProducts' = expandedProducts \ {p}
  /\ userCollapsed' = userCollapsed \cup {p}
  /\ last' = Event("collapse", p, 0, << >>, {}, FALSE)
  /\ inventoryCache' = [k \in DOMAIN inventoryCache \ SkuSet(VariantsOf(p)) |-> inventoryCache[k]]
  /\ UNCHANGED <<loadingInventory, inFlight, issued>>

Collapse(p) ==
  /\ hasVariants(p)
  /\ p \in expandedProducts
  /\ expandedProducts' = expandedProducts \ {p}
  /\ userCollapsed' = userCollapsed \cup {p}
  /\ last' = Event("collapse", p, 0, << >>, {}, FALSE)
  /\ UNCHANGED <<loadingInventory, inventoryCache, inFlight, issued>>

ExpandCached(p) ==
  /\ hasVariants(p)
  /\ p \notin expandedProducts
  /\ Len(skusToFetch(VariantsOf(p), inventoryCache)) = 0
  /\ expandedProducts' = expandedProducts \cup {p}
  /\ userCollapsed' = userCollapsed \ {p}
  /\ last' = Event("expand", p, 0, << >>, {}, p \in userCollapsed)
  /\ UNCHANGED <<loadingInventory, inventoryCache, inFlight, issued>>

ExpandFetch(p) ==
  /\ hasVariants(p)
  /\ p \notin expandedProducts
  /\ Len(skusToFetch(VariantsOf(p), inventoryCache)) > 0
  /\ issued < MaxFetches
  /\ LET skus == skusToFetch(VariantsOf(p), inventoryCache)
         newExpanded == expandedProducts \cup {p}
     IN  /\ inFlight' = inFlight \cup
               {[id |-> issued + 1, productId |-> p, skus |-> skus, newExpanded |-> newExpanded]}
         /\ last' = Event("expand", p, issued + 1, skus, {}, p \in userCollapsed)
  /\ issued' = issued + 1
  /\ loadingInventory' = loadingInventory \cup {p}
  /\ userCollapsed' = userCollapsed \ {p}
  /\ UNCHANGED <<expandedProducts, inventoryCache>>

toggleExpand(p) == Collapse(p) \/ ExpandCached(p) \/ ExpandFetch(p)

\* ---------------------------------------------------------------------------
\* The continuation of toggleExpand after `await inventoryApi.getBatch`:
\* try { setInventoryCache } catch { log } finally { setLoadingInventory },
\* then setExpandedProducts(newExpanded).
\* ---------------------------------------------------------------------------
FetchSuccess(f, data) ==
  /\ f \in inFlight
  /\ inventoryCache' = spreadMerge(inventoryCache, data)
  /\ loadingInventory' = loadingInventory \ {f.productId}
  /\ expandedProducts' = f.newExpanded
  /\ inFlight' = inFlight \ {f}
  /\ last' = Event("success", f.productId, f.id, f.skus, DOMAIN data, FALSE)
  /\ UNCHANGED <<issued, userCollapsed>>

FetchFailurePlaceholders(f) ==
  /\ f \in inFlight
  /\ inventoryCache' = spreadMerge(inventoryCache,
        [k \in Requested(f) |-> [quantityAvailable |-> 0, quantityReserved |-> 1]])
  /\ loadingInventory' = loadingInventory \ {f.productId}
  /\ expandedProducts' = f.newExpanded
  /\ inFlight' = inFlight \ {f}
  /\ last' = Event("failure", f.productId, f.id, f.skus, {}, FALSE)
  /\ UNCHANGED <<issued, userCollapsed>>

FetchFailureNoExpand(f) ==
  /\ f \in inFlight
  /\ loadingInventory' = loadingInventory \ {f.productId}
  /\ inFlight' = inFlight \ {f}
  /\ last' = Event("failure", f.productId, f.id, f.skus, {}, FALSE)
  /\ UNCHANGED <<expandedProducts, inventoryCache, issued, userCollapsed>>

FetchFailureRetries(f) ==
  /\ f \in inFlight
  /\ expandedProducts' = f.newExpanded
  /\ last' = Event("failure", f.productId, f.id, f.skus, {}, FALSE)
  /\ IF issued < MaxFetches
     THEN /\ inFlight' = (inFlight \ {f}) \cup {[f EXCEPT !.id = issued + 1]}
          /\ issued' = issued + 1
          /\ UNCHANGED loadingInventory
     ELSE /\ inFlight' = inFlight \ {f}
          /\ loadingInventory' = loadingInventory \ {f.productId}
          /\ UNCHANGED issued
  /\ UNCHANGED <<inventoryCache, userCollapsed>>

FetchFailure(f) ==
  /\ f \in inFlight
  /\ loadingInventory' = loadingInventory \ {f.productId}
  /\ expandedProducts' = f.newExpanded
  /\ inFlight' = inFlight \ {f}
  /\ last' = Event("failure", f.productId, f.id, f.skus, {}, FALSE)
  /\ UNCHANGED <<inventoryCache, issued, userCollapsed>>

Next ==
  \/ \E p \in ProductIds : Collapse(p) /\ UNCHANGED <<badgeVars, skuVars, loginVars, formVars>>
  \/ \E p \in ProductIds : ExpandCached(p) /\ UNCHANGED <<badgeVars, skuVars, loginVars, formVars>>
  \/ \E p \in ProductIds : ExpandFetch(p) /\ UNCHANGED <<badgeVars, skuVars, loginVars, formVars>>
  \/ \E f \in inFlight : \E data \in BatchResponses(f.skus) :
        FetchSuccess(f, data) /\ UNCHANGED <<badgeVars, skuVars, loginVars, formVars>>
  \/ \E f \in inFlight : FetchFailure(f) /\ UNCHANGED <<badgeVars, skuVars, loginVars, formVars>>

Spec == Init /\ [][Next]_vars

TypeOK ==
  /\ expandedProducts \subseteq ProductIds
  /\ loadingInventory \subseteq ProductIds
  /\ DOMAIN inventoryCache \subseteq Skus
  /\ issued \in 0..MaxFetches

\* ---------------------------------------------------------------------------
\* StockBadge rendered for one quantity.
\* ---------------------------------------------------------------------------
ListIdle ==
  /\ expandedProducts = {}
  /\ loadingInventory = {}
  /\ inventoryCache = << >>
  /\ inFlight = {}
  /\ issued = 0
  /\ last = Event("init", "", 0, << >>, {}, FALSE)
  /\ userCollapsed = {}

BadgeInit ==
  /\ quantity \in 0..MaxQuantity
  /\ badge = Unrendered
  /\ ListIdle
  /\ SkuIdle
  /\ LoginIdle
  /\ FormIdle

RenderStockBadge ==
  /\ badge = Unrendered
  /\ badge' = StockBadge(quantity)
  /\ UNCHANGED <<quantity, listVars, skuVars, loginVars, formVars>>

BadgeNext == RenderStockBadge

BadgeSpec == BadgeInit /\ [][BadgeNext]_vars

\* ---------------------------------------------------------------------------
\* generateSkuPreview called once on arguments drawn from these sets.
\* ---------------------------------------------------------------------------
ClassicCottonTShirt2 == <<"C","l","a","s","s","i","c"," ","C","o","t","t","o","n"," ","T","-","S","h","i","r","t"," ","2">>
iPhone15 == <<"i","P","h","o","n","e"," ","1","5">>
ElevenWords == <<"a"," ","b"," ","c"," ","d"," ","e"," ","f"," ","g"," ","h"," ","i"," ","j"," ","k"," ","1","2">>
Red == <<"R","e","d">>
Large == <<"L","a","r","g","e">>
GB128 == <<"1","2","8","G","B">>

\* "", "  ", "!!", "a", "7", "Classic Cotton T-Shirt 2", "iPhone 15",
\* "x1y22 - 9l", "a b c d e f g h i j k 12", " 4K  tv\t"
ProductNames ==
  {
    << >>,
    <<" "," ">>,
    <<"!","!">>,
    <<"a">>,
    <<"7">>,
    <<"C","l","a","s","s","i","c"," ","C","o","t","t","o","n"," ","T","-","S","h","i","r","t"," ","2">>,
    <<"i","P","h","o","n","e"," ","1","5">>,
    <<"x","1","y","2","2"," ","-"," ","9","l">>,
    <<"a"," ","b"," ","c"," ","d"," ","e"," ","f"," ","g"," ","h"," ","i"," ","j"," ","k"," ","1","2">>,
    <<" ","4","K"," "," ","t","v","\t">>}

\* undefined, "", "Red", "Bl", "navy"
Colors ==
  {undefined,
    << >>,
    <<"R","e","d">>,
    <<"B","l">>,
    <<"n","a","v","y">>}

\* undefined, "", "Large", " LARGE ", "extra small", "xxl", "128GB", "M",
\* "One Size", "constructor", "  ", "Size 10"
Sizes ==
  {undefined,
    << >>,
    <<"L","a","r","g","e">>,
    <<" ","L","A","R","G","E"," ">>,
    <<"e","x","t","r","a"," ","s","m","a","l","l">>,
    <<"x","x","l">>,
    <<"1","2","8","G","B">>,
    <<"M">>,
    <<"O","n","e"," ","S","i","z","e">>,
    <<"c","o","n","s","t","r","u","c","t","o","r">>,
    <<" "," ">>,
    <<"S","i","z","e"," ","1","0">>}

SkuInit ==
  /\ args \in [productName : ProductNames, color : Colors, size : Sizes]
  /\ result = NotCalled
  /\ ListIdle
  /\ BadgeIdle
  /\ FormIdle
  /\ LoginIdle

CallGenerateSkuPreview ==
  /\ result = NotCalled
  /\ result' = generateSkuPreview(args.productName, args.color, args.size)
  /\ UNCHANGED <<args, listVars, badgeVars, formVars, loginVars>>

SkuNext == CallGenerateSkuPreview

SkuSpec == SkuInit /\ [][SkuNext]_vars

\* ---------------------------------------------------------------------------
\* The add-product form, AddProductPage.tsx 24-143.  A change of the name
\* input re-renders and then runs the [formData.name] effect before the next
\* event is handled.  An updater that throws makes the render throw, which
\* unmounts the page and leaves its state as it was.
\* ---------------------------------------------------------------------------
\* Largest number of variant rows on the form.
MaxVariants == 2

\* What the user types: "", "a", "iPhone 15"; "", "Red"; "", "Large",
\* "constructor"; and the stock numbers.
FormNames == {<< >>, <<"a">>, iPhone15}
FormColors == {<< >>, Red}
FormSizes == {<< >>, Large, <<"c","o","n","s","t","r","u","c","t","o","r">>}
FormStocks == {0, 5}

\* Date.now() of an addVariant click: not before the earlier clicks.
Clock == 1..MaxVariants

Variant(id, color, size, initial_stock, generated_sku) ==
  [id |-> id, color |-> color, size |-> size,
   initial_stock |-> initial_stock, generated_sku |-> generated_sku]

FormInit ==
  /\ formName = << >>
  /\ formVariants = << >>
  /\ effectPending = TRUE
  /\ crashed = FALSE
  /\ formPrice = << >>
  /\ error = null
  /\ loading = FALSE
  /\ created = << >>
  /\ navigated = FALSE
  /\ ListIdle
  /\ BadgeIdle
  /\ SkuIdle
  /\ LoginIdle

\* The handlers run on a mounted page whose effects have been flushed.
Interactive == ~effectPending /\ ~crashed /\ ~navigated

\* Some preview of the list could not be computed.
Throws(list) == \E i \in 1..Len(list) : list[i].generated_sku = TypeError

\* handleInputChange for the name input.
handleInputChange(value) ==
  /\ Interactive
  /\ formName' = value
  /\ effectPending' = (value # formName)
  /\ UNCHANGED <<formVariants, crashed>>

\* useEffect(() => setVariants((prev) => prev.map(...)), [formData.name])
effectMapNothing(prev, name) == prev

effectMap(prev, name) ==
  [i \in 1..Len(prev) |->
     [prev[i] EXCEPT !.generated_sku = generateSkuPreview(name, prev[i].color, prev[i].size)]]

runEffect ==
  /\ effectPending
  /\ ~crashed
  /\ effectPending' = FALSE
  /\ IF Throws(effectMap(formVariants, formName))
     THEN crashed' = TRUE /\ UNCHANGED formVariants
     ELSE formVariants' = effectMap(formVariants, formName) /\ UNCHANGED crashed
  /\ UNCHANGED formName

addVariant(now) ==
  /\ Interactive
  /\ Len(formVariants) < MaxVariants
  /\ \A i \in 1..Len(formVariants) : formVariants[i].id <= now
  /\ formVariants' = Append(formVariants,
        Variant(now, << >>, << >>, 0, generateSkuPreview(formName, << >>, << >>)))
  /\ UNCHANGED <<formName, effectPending, crashed>>

removeVariant(id) ==
  /\ Interactive
  /\ \E i \in 1..Len(formVariants) : formVariants[i].id = id
  /\ LET keep(v) == v.id # id
     IN  formVariants' = SelectSeq(formVariants, keep)
  /\ UNCHANGED <<formName, effectPending, crashed>>

\* The `updated` object of updateVariant for the variant with the given id.
updatedStale(v, field, value, name) ==
  LET changed == CASE field = "color" -> [v EXCEPT !.color = value]
                   [] field = "size" -> [v EXCEPT !.size = value]
                   [] OTHER -> [v EXCEPT !.initial_stock = value]
  IN  IF field = "color" \/ field = "size"
      THEN [changed EXCEPT !.generated_sku = generateSkuPreview(name, v.color, v.size)]
      ELSE changed

updated(v, field, value, name) ==
  LET changed == CASE field = "color" -> [v EXCEPT !.color = value]
                   [] field = "size" -> [v EXCEPT !.size = value]
                   [] OTHER -> [v EXCEPT !.initial_stock = value]
  IN  IF field = "color" \/ field = "size"
      THEN [changed EXCEPT !.generated_sku = generateSkuPreview(name, changed.color, changed.size)]
      ELSE changed

updateVariant(id, field, value) ==
  /\ Interactive
  /\ \E i \in 1..Len(formVariants) : formVariants[i].id = id
  /\ LET next == [i \in 1..Len(formVariants) |->
                    IF formVariants[i].id = id
                    THEN updated(formVariants[i], field, value, formName)
                    ELSE formVariants[i]]
     IN  IF Throws(next)
         THEN crashed' = TRUE /\ UNCHANGED formVariants
         ELSE formVariants' = next /\ UNCHANGED crashed
  /\ UNCHANGED <<formName, effectPending>>

FormNext ==
  \/ \E value \in FormNames : handleInputChange(value) /\ UNCHANGED <<listVars, badgeVars, skuVars, loginVars, submitVars>>
  \/ runEffect /\ UNCHANGED <<listVars, badgeVars, skuVars, loginVars, submitVars>>
  \/ \E now \in Clock : addVariant(now) /\ UNCHANGED <<listVars, badgeVars, skuVars, loginVars, submitVars>>
  \/ \E id \in Clock : removeVariant(id) /\ UNCHANGED <<listVars, badgeVars, skuVars, loginVars, submitVars>>
  \/ \E id \in Clock : \E value \in FormColors :
        updateVariant(id, "color", value) /\ UNCHANGED <<listVars, badgeVars, skuVars, loginVars, submitVars>>
  \/ \E id \in Clock : \E value \in FormSizes :
        updateVariant(id, "size", value) /\ UNCHANGED <<listVars, badgeVars, skuVars, loginVars, submitVars>>
  \/ \E id \in Clock : \E value \in FormStocks :
        updateVariant(id, "initial_stock", value) /\ UNCHANGED <<listVars, badgeVars, skuVars, loginVars, submitVars>>

FormSpec == FormInit /\ [][FormNext]_vars

\* ---------------------------------------------------------------------------
\* Submitting the add-product form, AddProductPage.tsx 177-259.  The form is
\* as the user has filled it in: a name, a price, and up to MaxVariants
\* variants whose previews are current.
\* ---------------------------------------------------------------------------
\* The price input has type="number": its value is "" or a number.
FormPrices == {<< >>, <<"0">>, <<"5">>, <<"-","1">>, <<"0",".","5">>}
\* parseInt(e.target.value) || 0 of the stock input.
SubmitStocks == {-1, 0, 5}
SubmitSizes == {<< >>, Large}
\* Names typed into the form, one of them only a space.
SubmitNames == FormNames \cup {<<" ">>}

FilledVariants ==
  UNION {[1..n -> [color : FormColors, size : SubmitSizes, initial_stock : SubmitStocks]] :
           n \in 0..MaxVariants}

SubmitInit ==
  /\ formName \in SubmitNames
  /\ formPrice \in FormPrices
  /\ \E filled \in FilledVariants :
        formVariants = [i \in 1..Len(filled) |->
          Variant(i, filled[i].color, filled[i].size, filled[i].initial_stock,
                  generateSkuPreview(formName, filled[i].color, filled[i].size))]
  /\ effectPending = FALSE
  /\ crashed = FALSE
  /\ error = null
  /\ loading = FALSE
  /\ created = << >>
  /\ navigated = FALSE
  /\ ListIdle
  /\ BadgeIdle
  /\ SkuIdle
  /\ LoginIdle

\* handleInputChange for the price input.
handlePriceChange(value) ==
  /\ Interactive
  /\ formPrice' = value
  /\ UNCHANGED <<formName, formVariants, effectPending, crashed, error, loading, created, navigated>>

\* parseFloat of a decimal string with at most two fraction digits, in
\* hundredths: optional sign, digits, optional "." and digits; NaN when
\* there is no digit.
digitValue(c) == CHOOSE n \in 0..9 : <<"0","1","2","3","4","5","6","7","8","9">>[n + 1] = c

RECURSIVE numberOf(_, _)
numberOf(digits, acc) ==
  IF digits = << >> THEN acc ELSE numberOf(Tail(digits), 10 * acc + digitValue(Head(digits)))

\* Whether parseFloat(s) is a number (not NaN).
parsesToNumber(s) ==
  LET t == trimStart(s)
      u == IF t # << >> /\ t[1] \in {"-", "+"} THEN Tail(t) ELSE t
  IN  \/ u # << >> /\ isDigit(u[1])
      \/ Len(u) >= 2 /\ u[1] = "." /\ isDigit(u[2])

parseFloat(s) ==
  LET t == trimStart(s)
      signed == t # << >> /\ t[1] \in {"-", "+"}
      u == IF signed THEN Tail(t) ELSE t
      whole == digitRunFrom(u, 1)
      rest == SubSeq(u, Len(whole) + 1, Len(u))
      frac == IF rest # << >> /\ rest[1] = "." THEN digitRunFrom(rest, 2) ELSE << >>
      hundredths == 100 * numberOf(whole, 0) + numberOf(SubSeq(padEnd(frac, 2, "0"), 1, 2), 0)
  IN  IF whole = << >> /\ frac = << >> THEN NaN
      ELSE IF signed /\ t[1] = "-" THEN 0 - hundredths ELSE hundredths

\* handleSubmit, lines 180-208: the message of the first failing check, or
\* null when all pass.
RECURSIVE variantError(_, _)
variantError(list, i) ==
  IF i > Len(list) THEN null
  ELSE IF ~isTruthy(list[i].color) /\ ~isTruthy(list[i].size)
       THEN <<"Each variant must have at least color or size specified">>
  ELSE IF list[i].initial_stock < 0 THEN <<"Initial stock cannot be negative">>
  ELSE variantError(list, i + 1)

validationErrorNoVariantCheck(name, price, list) ==
  IF trim(name) = << >> THEN <<"Product name is required">>
  ELSE IF ~isTruthy(price) \/ (parsesToNumber(price) /\ parseFloat(price) <= 0)
       THEN <<"Valid price is required">>
  ELSE IF Len(list) = 0 THEN <<"At least one variant is required">>
  ELSE null

validationError(name, price, list) ==
  IF trim(name) = << >> THEN <<"Product name is required">>
  ELSE IF ~isTruthy(price) \/ (parsesToNumber(price) /\ parseFloat(price) <= 0)
       THEN <<"Valid price is required">>
  ELSE IF Len(list) = 0 THEN <<"At least one variant is required">>
  ELSE variantError(list, 1)

\* productData, lines 213-243: the fields built from the name, the price and
\* the variants (the other fields carry the untouched initial form values).
productDataWithSku(name, price, list) ==
  [name |-> trim(name),
   price |-> parseFloat(price),
   variants |-> [i \in 1..Len(list) |->
                  [color |-> IF isTruthy(list[i].color) THEN list[i].color ELSE undefined,
                   size |-> IF isTruthy(list[i].size) THEN list[i].size ELSE undefined,
                   initial_stock |-> list[i].initial_stock,
                   sku |-> list[i].generated_sku]],
   status |-> "active"]

productData(name, price, list) ==
  [name |-> trim(name),
   price |-> parseFloat(price),
   variants |-> [i \in 1..Len(list) |->
                  [color |-> IF isTruthy(list[i].color) THEN list[i].color ELSE undefined,
                   size |-> IF isTruthy(list[i].size) THEN list[i].size ELSE undefined,
                   initial_stock |-> list[i].initial_stock]],
   status |-> "active"]

\* handleSubmit up to its await (or to its return when a check fails).  The
\* submit button is disabled while loading.
handleSubmit ==
  /\ Interactive
  /\ ~loading
  /\ LET message == validationError(formName, formPrice, formVariants)
     IN  IF message # null
         THEN error' = message /\ UNCHANGED <<loading, created>>
         ELSE /\ error' = null
              /\ loading' = TRUE
              /\ created' = << productData(formName, formPrice, formVariants) >>
  /\ UNCHANGED <<formName, formVariants, effectPending, crashed, formPrice, navigated>>

\* The continuation of handleSubmit after `await productsApi.create`:
\* navigate('/products') and finally setLoading(false).
createResolves ==
  /\ created # << >>
  /\ ~navigated
  /\ navigated' = TRUE
  /\ loading' = FALSE
  /\ UNCHANGED <<formName, formVariants, effectPending, crashed, formPrice, error, created>>

\* catch: setError(errorMessage), finally setLoading(false).
createRejects ==
  /\ created # << >>
  /\ ~navigated
  /\ error' = <<"Failed to create product">>
  /\ loading' = FALSE
  /\ created' = << >>
  /\ UNCHANGED <<formName, formVariants, effectPending, crashed, formPrice, navigated>>

SubmitNext ==
  \/ \E value \in FormPrices : handlePriceChange(value) /\ UNCHANGED <<listVars, badgeVars, skuVars, loginVars>>
  \/ handleSubmit /\ UNCHANGED <<listVars, badgeVars, skuVars, loginVars>>
  \/ createResolves /\ UNCHANGED <<listVars, badgeVars, skuVars, loginVars>>
  \/ createRejects /\ UNCHANGED <<listVars, badgeVars, skuVars, loginVars>>

SubmitSpec == SubmitInit /\ [][SubmitNext]_vars

\* ---------------------------------------------------------------------------
\* The login form, LoginPage.tsx 10-221.  The form is rendered while the
\* store says isAuthenticated is false; handleSubmit suspends at
\* `await authApi.login`.
\* ---------------------------------------------------------------------------
Emails == {"", "admin@xshopai.com", "wrong@example.com"}
Passwords == {"", "admin123", "wrongpassword"}

\* What the auth service does with a login request.
Replies == {"token and user", "no token", "401", "network error"}

\* The reducers of the auth slice.
loginStart(state) == [state EXCEPT !.isLoading = TRUE, !.error = null]
loginSuccess(state) == [isLoading |-> FALSE, error |-> null, isAuthenticated |-> TRUE]
loginFailure(state, message) == [isLoading |-> FALSE, error |-> message, isAuthenticated |-> FALSE]

\* authApi.login (api.ts 86-150): it catches every error of the request and
\* always returns a response object.
login(reply) ==
  CASE reply = "token and user" -> [success |-> TRUE, message |-> undefined]
    [] reply = "no token" -> [success |-> FALSE, message |-> <<"Invalid login response from server">>]
    [] reply = "401" -> [success |-> FALSE, message |-> <<"Invalid email or password">>]
    [] OTHER -> [success |-> FALSE,
                 message |-> <<"Cannot connect to server. Please check if the service is running.">>]

LoginInit ==
  /\ LoginIdle
  /\ ListIdle
  /\ BadgeIdle
  /\ SkuIdle
  /\ FormIdle

\* The form is on screen.
LoginShown == location = "/login" /\ ~auth.isAuthenticated

setEmail(value) ==
  /\ LoginShown
  /\ email' = value
  /\ UNCHANGED <<password, auth, pendingLogin, calls, location, response, dispatched>>

setPassword(value) ==
  /\ LoginShown
  /\ password' = value
  /\ UNCHANGED <<email, auth, pendingLogin, calls, location, response, dispatched>>

\* handleSubmit up to its await (or to its return when a field is empty).
\* The submit button is disabled while isLoading.
LoginPage_handleSubmit ==
  /\ LoginShown
  /\ ~auth.isLoading
  /\ IF email = "" \/ password = ""
     THEN /\ auth' = loginFailure(auth, <<"Please enter both email and password">>)
          /\ dispatched' = << [type |-> "loginFailure"] >>
          /\ UNCHANGED <<pendingLogin, calls>>
     ELSE /\ calls < MaxLogins
          /\ auth' = loginStart(auth)
          /\ dispatched' = << [type |-> "loginStart"] >>
          /\ pendingLogin' = << [email |-> email, password |-> password] >>
          /\ calls' = calls + 1
  /\ UNCHANGED <<email, password, location, response>>

\* The continuation of handleSubmit after `await authApi.login`.
loginReturnsAlwaysNavigates(reply) ==
  /\ pendingLogin # << >>
  /\ pendingLogin' = << >>
  /\ response' = << login(reply) >>
  /\ location' = "/dashboard"
  /\ IF login(reply).success
     THEN auth' = loginSuccess(auth) /\ dispatched' = << [type |-> "loginSuccess"] >>
     ELSE auth' = loginFailure(auth, login(reply).message)
          /\ dispatched' = << [type |-> "loginFailure"] >>
  /\ UNCHANGED <<email, password, calls>>

loginReturns(reply) ==
  /\ pendingLogin # << >>
  /\ pendingLogin' = << >>
  /\ response' = << login(reply) >>
  /\ IF login(reply).success
     THEN /\ auth' = loginSuccess(auth)
          /\ dispatched' = << [type |-> "loginSuccess"] >>
          /\ location' = "/dashboard"
     ELSE /\ auth' = loginFailure(auth, login(reply).message)
          /\ dispatched' = << [type |-> "loginFailure"] >>
          /\ UNCHANGED location
  /\ UNCHANGED <<email, password, calls>>

LoginNext ==
  \/ \E value \in Emails : setEmail(value) /\ UNCHANGED <<listVars, badgeVars, skuVars, formVars>>
  \/ \E value \in Passwords : setPassword(value) /\ UNCHANGED <<listVars, badgeVars, skuVars, formVars>>
  \/ LoginPage_handleSubmit /\ UNCHANGED <<listVars, badgeVars, skuVars, formVars>>
  \/ \E reply \in Replies : loginReturns(reply) /\ UNCHANGED <<listVars, badgeVars, skuVars, formVars>>

LoginSpec == LoginInit /\ [][LoginNext]_vars

\* ===========================================================================
\* Properties
\* ===========================================================================

\* The variant SKUs of p that are not keys of the cache.
Missing(p) == SkuSet(VariantsOf(p)) \ DOMAIN inventoryCache

\* The requests a step has added to the outstanding ones.
Issued == inFlight' \ inFlight

\* C1: an expand toggle of a product issues exactly one batch fetch, for
\* exactly the product's variant SKUs missing from the cache, when some SKU
\* is missing, and no batch fetch at all when none is missing.
C1_ExpandFetchesExactlyMissing ==
  [][\A p \in ProductIds :
       (p \notin expandedProducts /\ toggleExpand(p)) =>
         /\ inFlight \subseteq inFlight'
         /\ IF Missing(p) = {}
            THEN Issued = {} /\ issued' = issued
            ELSE /\ Cardinality(Issued) = 1
                 /\ issued' = issued + 1
                 /\ \A f \in Issued :
                      /\ f.productId = p
                      /\ Requested(f) = Missing(p)
                      /\ Len(f.skus) = Cardinality(Missing(p))]_vars

\* An expand of a product with one variant SKU cached and another missing
\* has just issued its request.
C1_Witness ==
  /\ last.op = "expand"
  /\ last.id = issued
  /\ last.id # 0
  /\ \E f \in inFlight : f.id = last.id /\ Requested(f) # SkuSet(VariantsOf(f.productId))
  /\ SkuSet(VariantsOf(last.productId)) \cap DOMAIN inventoryCache # {}

\* C2: at every moment each SKU is the subject of at most one outstanding
\* batch fetch.
C2_OneOutstandingFetchPerSku ==
  \A f \in inFlight : \A g \in inFlight :
    f.id # g.id => Requested(f) \cap Requested(g) = {}

\* C3: toggling a product while a batch fetch started by its own earlier
\* expand toggle is outstanding never issues a second batch fetch.
C3_NoSecondFetchWhileExpanding ==
  [][\A p \in ProductIds :
       (Outstanding(p) # {} /\ toggleExpand(p)) =>
         (issued' = issued /\ inFlight' = inFlight)]_vars

\* C4: when the user has collapsed a product while a fetch for it was
\* outstanding and that fetch then resolves successfully, the returned
\* records are written to the cache and the product stays collapsed.
C4_CollapsedStaysCollapsed ==
  [][\A f \in inFlight : \A data \in BatchResponses(f.skus) :
       (f.productId \in userCollapsed /\ FetchSuccess(f, data)) =>
         /\ \A k \in DOMAIN data :
              k \in DOMAIN inventoryCache' /\ inventoryCache'[k] = data[k]
         /\ f.productId \notin expandedProducts']_vars

\* C5: toggling (collapsing, re-expanding, any number of times) a product
\* all of whose variant SKUs are in the cache issues no batch fetch.
C5_CachedToggleIssuesNoFetch ==
  [][\A p \in ProductIds :
       (hasVariants(p) /\ Missing(p) = {} /\ toggleExpand(p)) =>
         (issued' = issued /\ inFlight' = inFlight)]_vars

\* A fully cached product has just been re-expanded after the user
\* collapsed it.
C5_Witness ==
  /\ last.op = "expand"
  /\ last.afterCollapse
  /\ last.id = 0
  /\ Missing(last.productId) = {}
  /\ last.productId \in expandedProducts

C7_ResolvedExpandIsExpanded ==
  [][\A f \in inFlight :
       (FetchFailure(f) \/ \E data \in BatchResponses(f.skus) : FetchSuccess(f, data)) =>
         /\ f.productId \in expandedProducts'
         /\ f.productId \notin loadingInventory']_vars

\* A fetch has just failed and its product is expanded and not loading.
C7_Witness ==
  /\ last.op = "failure"
  /\ last.productId \in expandedProducts
  /\ last.productId \notin loadingInventory

\* The sum of the cached quantityAvailable over a set of positions of a
\* variant list, a SKU without cache entry counting 0.
RECURSIVE SumAvailable(_, _, _)
SumAvailable(variants, cache, positions) ==
  IF positions = {} THEN 0
  ELSE LET i == CHOOSE j \in positions : TRUE
           sku == variants[i].sku
       IN  (IF sku \in DOMAIN cache THEN cache[sku].quantityAvailable ELSE 0)
           + SumAvailable(variants, cache, positions \ {i})

\* The "(Total: n)" text of a product row, lines 769-771: shown for an
\* expanded row whose inventory is loaded.
displayedTotal(p) ==
  IF hasVariants(p) /\ p \in expandedProducts
     /\ hasInventoryLoaded(VariantsOf(p), inventoryCache)
  THEN << getTotalStock(VariantsOf(p), inventoryCache) >>
  ELSE << >>

\* C8: after a successful batch fetch whose response omits some requested
\* SKU, hasInventoryLoaded is true for the product, and the total counts
\* the omitted SKUs as 0.
C8_LoadedAfterPartialResponse ==
  (last.op = "success" /\ last.returned # {last.skus[i] : i \in 1..Len(last.skus)}) =>
    LET variants == VariantsOf(last.productId)
    IN  /\ hasInventoryLoaded(variants, inventoryCache)
        /\ getTotalStock(variants, inventoryCache)
             = SumAvailable(variants, inventoryCache, 1..Len(variants))

\* C9: getTotalStock of every product is the sum of the cached
\* quantityAvailable of its variant SKUs (0 for a SKU without entry, 0 for
\* no variants), and the Total shown for an expanded product whose SKUs are
\* all cached is that sum.
C9_TotalStockIsSum ==
  \A p \in ProductIds :
    LET variants == VariantsOf(p)
        sum == SumAvailable(variants, inventoryCache, 1..Len(variants))
    IN  /\ getTotalStock(variants, inventoryCache) = sum
        /\ (Len(variants) = 0 => getTotalStock(variants, inventoryCache) = 0)
        /\ (p \in expandedProducts /\ hasVariants(p)
            /\ SkuSet(variants) \subseteq DOMAIN inventoryCache)
             => displayedTotal(p) = << sum >>

\* A cache update has just completed the records of an expanded product
\* whose two variants have 5 and 3 available: the Total is 8.
C9_Witness ==
  /\ last.op = "success"
  /\ last.productId \in expandedProducts
  /\ Missing(last.productId) = {}
  /\ \E v \in 1..Len(VariantsOf(last.productId)) :
       inventoryCache[VariantsOf(last.productId)[v].sku].quantityAvailable = 5
  /\ getTotalStock(VariantsOf(last.productId), inventoryCache) = 8

\* C10: hasInventoryLoaded of a variant list is true exactly when every
\* variant SKU is a key of the cache (true for no variants).
C10_LoadedIffAllKeys ==
  \A p \in ProductIds :
    /\ hasInventoryLoaded(VariantsOf(p), inventoryCache)
         <=> (SkuSet(VariantsOf(p)) \subseteq DOMAIN inventoryCache)
    /\ (Len(VariantsOf(p)) = 0 => hasInventoryLoaded(VariantsOf(p), inventoryCache))

\* A product has one variant SKU cached and another absent, and
\* hasInventoryLoaded is false for it.
C10_Witness ==
  \E p \in ProductIds :
    /\ SkuSet(VariantsOf(p)) \cap DOMAIN inventoryCache # {}
    /\ Missing(p) # {}
    /\ ~hasInventoryLoaded(VariantsOf(p), inventoryCache)

\* The stock status a badge stands for.
stockStatus(b) ==
  CASE b.variant = "error" -> "OutOfStock"
    [] b.variant = "warning" -> "Low"
    [] b.variant = "success" -> "InStock"
    [] OTHER -> "none"

\* C11: for every quantity q >= 0 the stock status is OutOfStock when q = 0,
\* Low when 0 < q < 10 and InStock when q >= 10; status(0) = OutOfStock,
\* status(9) = Low, status(10) = InStock.
C11_StockStatusThresholds ==
  /\ badge # Unrendered =>
       /\ quantity = 0 => stockStatus(badge) = "OutOfStock"
       /\ (0 < quantity /\ quantity < 10) => stockStatus(badge) = "Low"
       /\ quantity >= 10 => stockStatus(badge) = "InStock"
  /\ stockStatus(StockBadge(0)) = "OutOfStock"
  /\ stockStatus(StockBadge(9)) = "Low"
  /\ stockStatus(StockBadge(10)) = "InStock"

\* The badge of quantity 10 has been rendered, as in stock.
C11_Witness ==
  /\ quantity = 10
  /\ badge # Unrendered
  /\ stockStatus(badge) = "InStock"

\* ---------------------------------------------------------------------------
\* The SKU as section 4.1 describes it, by positions in the name.
\* ---------------------------------------------------------------------------
\* The members of a set of numbers in increasing order.
RECURSIVE Ascending(_)
Ascending(S) ==
  IF S = {} THEN << >>
  ELSE LET m == CHOOSE x \in S : \A y \in S : x <= y
       IN  << m >> \o Ascending(S \ {m})

\* Step 1: the name without its characters that are no letter, digit or
\* white space.
Stripped(name) ==
  LET at == Ascending({i \in 1..Len(name) :
                         isLetter(name[i]) \/ isDigit(name[i]) \/ isSpace(name[i])})
  IN  [k \in 1..Len(at) |-> name[at[k]]]

\* Step 2: the positions where a white-space-delimited word starts, and the
\* position where the word starting at i ends.
WordStarts(st) ==
  {i \in 1..Len(st) : ~isSpace(st[i]) /\ (i = 1 \/ isSpace(st[i - 1]))}

WordEnd(st, i) ==
  CHOOSE e \in i..Len(st) :
    /\ \A j \in i..e : ~isSpace(st[j])
    /\ (e = Len(st) \/ isSpace(st[e + 1]))

\* Step 3: the first digit run of the word starting at i (empty if none).
FirstDigitRun(st, i) ==
  LET e == WordEnd(st, i)
      digitsAt == {j \in i..e : isDigit(st[j])}
  IN  IF digitsAt = {} THEN << >>
      ELSE LET d == CHOOSE x \in digitsAt : \A y \in digitsAt : x <= y
               r == CHOOSE x \in d..e :
                      /\ \A j \in d..x : isDigit(st[j])
                      /\ (x = e \/ ~isDigit(st[x + 1]))
           IN  SubSeq(st, d, r)

RECURSIVE Concat(_)
Concat(seqs) == IF seqs = << >> THEN << >> ELSE Head(seqs) \o Concat(Tail(seqs))

SpecInitials(name) ==
  LET st == Stripped(name)
      starts == Ascending({i \in WordStarts(st) : isLetter(st[i])})
  IN  [k \in 1..Len(starts) |-> st[starts[k]]]

SpecNumbers(name) ==
  LET st == Stripped(name)
      starts == Ascending(WordStarts(st))
  IN  Concat([k \in 1..Len(starts) |-> FirstDigitRun(st, starts[k])])

\* Step 4 before truncation: initials + numbers.
SpecCode(name) == SpecInitials(name) \o SpecNumbers(name)

\* Steps 4-6: the base segment.
SpecBase(name) ==
  LET code == SubSeq(SpecCode(name), 1, IF Len(SpecCode(name)) < 10 THEN Len(SpecCode(name)) ELSE 10)
  IN  toUpperCase(IF Len(code) < 2
                  THEN code \o [k \in 1..(4 - Len(code)) |-> "P"]
                  ELSE code)

\* Step 8: the size segment.
SizeNames == {<<"e","x","t","r","a"," ","s","m","a","l","l">>, <<"s","m","a","l","l">>, <<"m","e","d","i","u","m">>, <<"l","a","r","g","e">>, <<"e","x","t","r","a"," ","l","a","r","g","e">>, <<"x","x","l">>}

CanonicalSize(n) ==
  CASE n = <<"e","x","t","r","a"," ","s","m","a","l","l">> -> <<"X","S">>
    [] n = <<"s","m","a","l","l">> -> <<"S">>
    [] n = <<"m","e","d","i","u","m">> -> <<"M">>
    [] n = <<"l","a","r","g","e">> -> <<"L">>
    [] n = <<"e","x","t","r","a"," ","l","a","r","g","e">> -> <<"X","L">>
    [] n = <<"x","x","l">> -> <<"X","X","L">>

SpecSizeSegment(size) ==
  LET n == trim(toLowerCase(size))
  IN  toUpperCase(
        IF n \in SizeNames THEN CanonicalSize(n)
        ELSE IF \E i \in 1..Len(size) : isDigit(size[i])
             THEN FirstDigitRun(size \o << " " >>,
                                CHOOSE i \in 1..Len(size) : isDigit(size[i])
                                  /\ \A j \in 1..(i - 1) : ~isDigit(size[j]))
             ELSE SubSeq(size, 1, IF Len(size) < 3 THEN Len(size) ELSE 3))

\* Steps 7-9: the segments present, joined by "-".
SpecSegments(name, color, size) ==
  << SpecBase(name) >>
    \o (IF isTruthy(color)
        THEN << toUpperCase(SubSeq(color, 1, IF Len(color) < 3 THEN Len(color) ELSE 3)) >>
        ELSE << >>)
    \o (IF isTruthy(size) THEN << SpecSizeSegment(size) >> ELSE << >>)

RECURSIVE JoinDash(_)
JoinDash(segments) ==
  IF Len(segments) = 1 THEN segments[1]
  ELSE segments[1] \o << "-" >> \o JoinDash(Tail(segments))

\* The call has returned a string.
Returned == result # NotCalled /\ result # TypeError

\* r starts with the segment b, and r ends with the segment b.
HasBase(r, b) ==
  /\ Len(r) >= Len(b)
  /\ SubSeq(r, 1, Len(b)) = b
  /\ (Len(r) = Len(b) \/ r[Len(b) + 1] = "-")

EndsWithSegment(r, b) ==
  /\ Len(r) > Len(b)
  /\ SubSeq(r, Len(r) - Len(b) + 1, Len(r)) = b
  /\ r[Len(r) - Len(b)] = "-"

IsExample1 == args = [productName |-> ClassicCottonTShirt2, color |-> Red, size |-> Large]
IsExample2 == args = [productName |-> iPhone15, color |-> undefined, size |-> GB128]

\* C12 as stated: generateSku("Classic Cotton T-Shirt 2", "Red", "Large")
\* returns "CCTS2-RED-L".
C12_ExampleAsStated ==
  (IsExample1 /\ result # NotCalled) =>
    result = <<"C","C","T","S","2","-","R","E","D","-","L">>

\* C12 amended: generateSku("Classic Cotton T-Shirt 2", "Red", "Large")
\* returns "CCT2-RED-L": "T-Shirt" is the one word "TShirt" once the hyphen
\* is stripped, so the initials are "CCT", the numbers "2", the base "CCT2".
C12_Example ==
  (IsExample1 /\ result # NotCalled) =>
    /\ initialsOf(wordsOf(args.productName), 1) = <<"C","C","T">>
    /\ numbersOf(wordsOf(args.productName), 1) = <<"2">>
    /\ baseCode(args.productName) = <<"C","C","T","2">>
    /\ result = <<"C","C","T","2","-","R","E","D","-","L">>

\* generateSku has been called on the example's arguments.
C12_Witness == IsExample1 /\ Returned

\* C13: a name whose code has fewer than 2 characters (an empty,
\* white-space-only or entirely non-alphanumeric name included) gets the
\* base segment code + "P"... of 4 characters; generateSku("") is "PPPP".
C13_ShortCodeIsPadded ==
  (Returned /\ Len(SpecCode(args.productName)) < 2) =>
    /\ HasBase(result, SpecBase(args.productName))
    /\ Len(SpecBase(args.productName)) = 4
    /\ (args = [productName |-> << >>, color |-> undefined, size |-> undefined])
         => result = <<"P","P","P","P">>

\* C14: generateSku returns a string for every name, color and size; it
\* never throws.
C14_GenerateSkuIsTotal == result # TypeError

\* C17: for a name whose code has at least 2 characters the base segment is
\* the upper-cased initials followed by the first digit runs, cut to 10
\* characters; ("iPhone 15", no color, "128GB") gives "I15-128".
C17_BaseSegment ==
  /\ Len(SpecCode(args.productName)) >= 2 =>
       /\ baseCode(args.productName) = SpecBase(args.productName)
       /\ Returned => HasBase(result, SpecBase(args.productName))
  /\ (IsExample2 /\ result # NotCalled) =>
       result = <<"I","1","5","-","1","2","8">>

\* generateSku has returned for a name of eleven words and a number, whose
\* code is cut to its first 10 characters.
C17_Witness ==
  /\ args.productName = ElevenWords
  /\ Returned
  /\ Len(SpecCode(args.productName)) > 10
  /\ HasBase(result, <<"A","B","C","D","E","F","G","H","I","J">>)

\* C18: when size is provided the size segment is the canonical code of a
\* table name, else the first digit run of size, else the first 3
\* characters of size, upper-cased.
C18_SizeSegment ==
  (result # NotCalled /\ isTruthy(args.size) /\ trim(args.productName) # << >>) =>
    /\ sizeSegment(args.size) = SpecSizeSegment(args.size)
    /\ EndsWithSegment(result, SpecSizeSegment(args.size))

\* C19: the SKU is the base segment, then the color segment iff color is
\* provided, then the size segment iff size is provided, joined by "-",
\* for every product name, an empty one included.
C19_SegmentsJoined ==
  result # NotCalled =>
    result = JoinDash(SpecSegments(args.productName, args.color, args.size))

\* C16: once the pending effect has run, every variant's displayed preview
\* is generateSku(current name, its current color, its current size).
C16_PreviewsAreCurrent ==
  (~effectPending /\ ~crashed) =>
    \A i \in 1..Len(formVariants) :
      /\ formVariants[i].generated_sku # TypeError
      /\ formVariants[i].generated_sku =
           generateSkuPreview(formName, formVariants[i].color, formVariants[i].size)

\* Two variants, one of them with color Red and size Large, under the name
\* "iPhone 15" typed after them, all effects run.
C16_Witness ==
  /\ ~effectPending
  /\ ~crashed
  /\ formName = iPhone15
  /\ Len(formVariants) = 2
  /\ \E i \in 1..2 :
       /\ formVariants[i].color = Red
       /\ formVariants[i].size = Large
       /\ formVariants[i].generated_sku = <<"I","1","5","-","R","E","D","-","L">>
  /\ \E i \in 1..2 : formVariants[i].generated_sku = <<"I","1","5">>

\* C20: the set of cache keys never shrinks, and a successful fetch leaves
\* every (sku, record) pair of its response in the cache with exactly the
\* returned record and every entry not in the response unchanged.  (The
\* fetch a step resolves is the one leaving inFlight, and the keys of its
\* response are recorded in last.)
C20_CacheAppendOnly ==
  [][/\ DOMAIN inventoryCache \subseteq DOMAIN inventoryCache'
     /\ \A f \in inFlight \ inFlight' : \A data \in [last'.returned -> InventoryData] :
          FetchSuccess(f, data) =>
            /\ DOMAIN inventoryCache' = DOMAIN inventoryCache \cup DOMAIN data
            /\ \A k \in DOMAIN data : inventoryCache'[k] = data[k]
            /\ \A k \in DOMAIN inventoryCache \ DOMAIN data :
                 inventoryCache'[k] = inventoryCache[k]]_vars

\* A successful fetch has just returned records while the cache holds an
\* entry the response did not contain.
C20_Witness ==
  /\ last.op = "success"
  /\ last.returned # {}
  /\ DOMAIN inventoryCache \ last.returned # {}

\* C21: the records of one fetch response are written to the cache in one
\* step: a step changes the cache only when it is the continuation of a
\* successful fetch, and after that step every (sku, record) pair of the
\* response is in the cache; no step leaves only some of them there.
C21_ResponseWrittenAtomically ==
  [][inventoryCache' # inventoryCache =>
       \E f \in inFlight \ inFlight' : \E data \in [last'.returned -> InventoryData] :
         /\ FetchSuccess(f, data)
         /\ \A k \in DOMAIN data :
              k \in DOMAIN inventoryCache' /\ inventoryCache'[k] = data[k]]_vars

\* A response with two records has just been written, and both are cached.
C21_Witness ==
  /\ last.op = "success"
  /\ Cardinality(last.returned) = 2
  /\ last.returned \subseteq DOMAIN inventoryCache

\* C22: a toggle of an expanded product removes it from the expanded set in
\* that same step, issues no fetch, and leaves the inventory cache and the
\* loading set as they were.
C22_CollapseIsImmediateAndFrames ==
  [][\A p \in ProductIds :
       (p \in expandedProducts /\ toggleExpand(p)) =>
         /\ expandedProducts' = expandedProducts \ {p}
         /\ issued' = issued
         /\ inFlight' = inFlight
         /\ inventoryCache' = inventoryCache
         /\ loadingInventory' = loadingInventory]_vars

\* A product whose records are cached has just been collapsed while another
\* product was loading.
C22_Witness ==
  /\ last.op = "collapse"
  /\ last.productId \notin expandedProducts
  /\ SkuSet(VariantsOf(last.productId)) \cap DOMAIN inventoryCache # {}
  /\ loadingInventory # {}
  /\ inFlight # {}

\* C23: a batch fetch is issued only by a user's toggle of a product that
\* is not expanded; the step in which a fetch fails issues none and leaves
\* the SKUs it requested as absent as they were; and a SKU enters the cache
\* only when a fetch that requested it resolves successfully.
C23_NoFetchWithoutExpandToggle ==
  [][/\ (issued' # issued \/ Issued # {}) =>
          \E p \in ProductIds : p \notin expandedProducts /\ toggleExpand(p)
     /\ \A f \in inFlight :
          FetchFailure(f) =>
            /\ Issued = {}
            /\ issued' = issued
            /\ Requested(f) \ DOMAIN inventoryCache' = Requested(f) \ DOMAIN inventoryCache
     /\ \A k \in DOMAIN inventoryCache' \ DOMAIN inventoryCache :
          /\ last'.op = "success"
          /\ \E f \in inFlight \ inFlight' : f.id = last'.id /\ k \in Requested(f)]_vars

\* The only fetch issued so far has just failed: nothing is outstanding and
\* the SKUs it requested are absent.
C23_Witness ==
  /\ last.op = "failure"
  /\ issued = 1
  /\ inFlight = {}
  /\ loadingInventory = {}
  /\ DOMAIN inventoryCache = {}

\* The payload of the outstanding create request.
Sent == created[1]

\* C24: the create request carries no client-generated SKU: it has one
\* entry per variant of the form, each with exactly the fields color, size
\* and initial_stock, and the preview SKU is the value of no field.
C24_PayloadHasNoSku ==
  created # << >> =>
    /\ DOMAIN Sent \cap {"sku", "generated_sku"} = {}
    /\ Len(Sent.variants) = Len(formVariants)
    /\ \A i \in 1..Len(Sent.variants) :
         /\ DOMAIN Sent.variants[i] = {"color", "size", "initial_stock"}
         /\ Sent.variants[i].color # formVariants[i].generated_sku
         /\ Sent.variants[i].size # formVariants[i].generated_sku
         /\ Sent.variants[i].initial_stock = formVariants[i].initial_stock

\* A form with two variants, each with a preview SKU, has been submitted.
C24_Witness ==
  /\ created # << >>
  /\ Len(Sent.variants) = 2
  /\ \A i \in 1..Len(formVariants) : Len(formVariants[i].generated_sku) > 0

\* The prices of FormPrices that are greater than 0.
PositivePrices == {<<"5">>, <<"0",".","5">>}

\* The form as the claim wants it for a request.
Acceptable ==
  /\ \E i \in 1..Len(formName) : formName[i] # " "
  /\ formPrice \in PositivePrices
  /\ Len(formVariants) >= 1
  /\ \A i \in 1..Len(formVariants) :
       formVariants[i].color # << >> \/ formVariants[i].size # << >>
  /\ \A i \in 1..Len(formVariants) : formVariants[i].initial_stock >= 0

\* C25: a submit issues the create request only when the name is
\* non-blank, the price is greater than 0, there is at least one variant,
\* every variant has a color or a size and every initial stock is >= 0;
\* otherwise it sets an error message and sends no request.
C25_RequestOnlyWhenValid ==
  [][handleSubmit =>
       /\ (created' # << >> => Acceptable)
       /\ (~Acceptable => error' # null /\ created' = << >> /\ ~loading')]_vars

\* A submit of a form with a name, a positive price and a variant that
\* has neither color nor size has set the error and sent nothing.
C25_Witness ==
  /\ error = <<"Each variant must have at least color or size specified">>
  /\ created = << >>
  /\ formName # << >>
  /\ formPrice \in PositivePrices
  /\ \E i \in 1..Len(formVariants) :
       formVariants[i].color = << >> /\ formVariants[i].size = << >>

\* C26: on the login form the page goes to the dashboard only in a step in
\* which authApi.login has returned success; a submit with an empty email
\* or password dispatches loginFailure and calls authApi.login not at all;
\* and a login that returns without success dispatches loginFailure and
\* does not navigate.
C26_LoginNavigatesOnlyOnSuccess ==
  [][/\ (location' = "/dashboard" /\ location # "/dashboard") =>
          /\ pendingLogin # << >>
          /\ response' # << >>
          /\ response'[1].success
     /\ (LoginPage_handleSubmit /\ (email = "" \/ password = "")) =>
          /\ dispatched' = << [type |-> "loginFailure"] >>
          /\ calls' = calls
          /\ pendingLogin' = pendingLogin
          /\ location' = location
     /\ \A reply \in Replies :
          (loginReturns(reply) /\ ~login(reply).success) =>
            /\ dispatched' = << [type |-> "loginFailure"] >>
            /\ location' = "/login"]_vars

\* A login with both fields filled has just been refused with a 401: the
\* store holds the message and the page is still the login form.
C26_Witness ==
  /\ response # << >>
  /\ ~response[1].success
  /\ dispatched = << [type |-> "loginFailure"] >>
  /\ auth.error = <<"Invalid email or password">>
  /\ email # ""
  /\ password # ""
  /\ location = "/login"

\* C27: a toggle of product p, and the completion of a fetch issued for p,
\* leave every other product's membership in the expanded set as it was.
C27_ToggleAffectsOnlyItsProduct ==
  [][/\ \A p \in ProductIds :
          toggleExpand(p) =>
            \A q \in ProductIds \ {p} : (q \in expandedProducts') <=> (q \in expandedProducts)
     /\ \A f \in inFlight \ inFlight' :
          \A q \in ProductIds \ {f.productId} :
            (q \in expandedProducts') <=> (q \in expandedProducts)]_vars

\* C28: when the fetches of two different products are outstanding together
\* and both succeed, one right after the other in either order, the cache
\* then holds the records of both responses.
C28_ConcurrentResponsesCompose ==
  [][\A f \in inFlight \ inFlight' : \A data \in [last'.returned -> InventoryData] :
       (/\ FetchSuccess(f, data)
        /\ last.op = "success"
        /\ last.productId # f.productId) =>
         /\ \A k \in DOMAIN data :
              k \in DOMAIN inventoryCache' /\ inventoryCache'[k] = data[k]
         /\ \A k \in last.returned :
              k \in DOMAIN inventoryCache' /\ inventoryCache'[k] = inventoryCache[k]]_vars

\* C29: a product id is in the loading set exactly when some batch fetch
\* issued for that product is outstanding.
C29_LoadingIffOutstanding ==
  \A p \in ProductIds : (p \in loadingInventory) <=> (Outstanding(p) # {})

====
